---- MODULE Spec2Model ----
(***************************************************************************)
(* Blackjack round engine of src/main.cpp: the card supply (deck and       *)
(* discard pile), hand scoring, the per-hand decision loop (hit, stand,    *)
(* split, double down), dealer play and settlement.                        *)
(***************************************************************************)
EXTENDS Integers, Sequences, FiniteSets, Bags, TLC

(***************************************************************************)
(* Bounds of the model.                                                    *)
(***************************************************************************)
\* rounds of one session: "Play another round?" is answered Y at most
\* MaxRounds - 1 times
MaxRounds == 2
\* largest number of players entered at setup (the program accepts 1..3)
MaxPlay == 2
\* number of iterations of the shuffle loop whose random source and target
\* differ (the remaining iterations pick source = target); iteration k
\* brings a card of a chosen rank to position k of the deck
TopLen == 6
\* the first HeadLen of these cards have their rank chosen in StackRanks,
\* the following ones in TailRanks
HeadLen == 4

StackRanks == {"A", "10", "K", "5"}

TailRanks == {"A", "5"}

\* the shuffles of the sessions with several rounds or players choose the
\* rank of the first HeadLen \div 2 cards in NarrowRanks and bring cards of
\* rank NarrowFill and NarrowTail behind them
NarrowRanks == {"10", "5"}

NarrowFill == "10"

NarrowTail == "5"

\* amounts typed at the bet prompt
BetInputs == {0, 10, 1000}

\* cards that earlier rounds have moved to the discard pile in the sessions
\* that are entered after some rounds
PlayedBefore == {148, 149, 150}

(***************************************************************************)
(* Cards.                                                                  *)
(***************************************************************************)
\* CRDVALS in the iteration order of std::map<std::string,int> (keys sorted
\* as strings)
RANKORDER == <<"10", "2", "3", "4", "5", "6", "7", "8", "9", "A", "J", "K", "Q">>

VALRANKS == {"A", "2", "3", "4", "5", "6", "7", "8", "9", "10", "J", "Q", "K"}

CRDVALS == [r \in VALRANKS |->
              CASE r = "A" -> 11
                [] r = "2" -> 2 [] r = "3" -> 3 [] r = "4" -> 4
                [] r = "5" -> 5 [] r = "6" -> 6 [] r = "7" -> 7
                [] r = "8" -> 8 [] r = "9" -> 9
                [] OTHER -> 10]

SUITS == <<"S", "H", "D", "C">>

\* struct Card. A card is written as its position 1..52 in the set that
\* createDk builds (rank-major in the order of CRDVALS, suits in the order
\* of SUITS); rank, suit and value are its members, and two cards are equal
\* (operator==) when rank and suit are
rank(c) == RANKORDER[((c - 1) \div 4) + 1]

suit(c) == SUITS[((c - 1) % 4) + 1]

value(c) == CRDVALS[rank(c)]

\* number of card sets createDk is called with
NumDk == 4
\* deck size below which a round starts with a full rebuild
LowMark == 60
\* chips of a player entered at setup
StartChips == 1000

(***************************************************************************)
(* Sequence helpers.                                                       *)
(***************************************************************************)
RECURSIVE SumSeq(_)
SumSeq(s) == IF s = <<>> THEN 0 ELSE Head(s) + SumSeq(Tail(s))

Reverse(s) == [i \in 1..Len(s) |-> s[Len(s) + 1 - i]]

RemoveAt(s, i) == SubSeq(s, 1, i - 1) \o SubSeq(s, i + 1, Len(s))

InsertAt(s, i, x) == SubSeq(s, 1, i - 1) \o <<x>> \o SubSeq(s, i, Len(s))

(***************************************************************************)
(* Hands and scoring.                                                      *)
(***************************************************************************)
\* struct Hand; default member values
\* org is a history field, not a member of the struct: "deal" for a hand
\* created at bet time, "aces" / "split" for both hands that a split of a
\* pair of aces / of another pair leaves
NewHand == [cards |-> <<>>, bet |-> 0, isplit |-> FALSE, ddown |-> FALSE, org |-> "deal"]

\* mutation: only one ace is counted low
Soften_once(score, ace_cnt) ==
  IF score > 21 /\ ace_cnt > 0 THEN score - 10 ELSE score

\* the softening loop of calcScr
RECURSIVE Soften(_, _)
Soften(score, ace_cnt) ==
  IF score > 21 /\ ace_cnt > 0 THEN Soften(score - 10, ace_cnt - 1) ELSE score

calcScr(hand) ==
  IF hand.cards = <<>> THEN 0
  ELSE LET initial == SumSeq([i \in 1..Len(hand.cards) |->
                        IF rank(hand.cards[i]) = "A" THEN 0 ELSE value(hand.cards[i])])
           ace_cnt == Cardinality({i \in 1..Len(hand.cards) : rank(hand.cards[i]) = "A"})
       IN Soften(initial + ace_cnt * 11, ace_cnt)

\* mutation: the split flag is not looked at
is_nat_any(hand) == calcScr(hand) = 21 /\ Len(hand.cards) = 2

is_nat(hand) == calcScr(hand) = 21 /\ Len(hand.cards) = 2 /\ ~hand.isplit

(***************************************************************************)
(* Deck management.                                                        *)
(***************************************************************************)
\* the cards of one pass of createDk's loops over CRDVALS and SUITS
OneSet == [i \in 1..52 |-> i]

\* the deck createDk leaves (the discard pile is cleared by the caller's
\* assignment disPile' = <<>>)
createDk(num_dk) == [i \in 1..(52 * num_dk) |-> OneSet[((i - 1) % 52) + 1]]

\* one iteration of the shuffle loop: the card at position from is erased
\* and inserted at position to (positions are 1-based here)
Relocate(d, from, to) == InsertAt(RemoveAt(d, from), to, d[from])

\* first position >= k holding rank r, or k when there is none
FirstOf(d, r, k) ==
  LET hits == {i \in k..Len(d) : rank(d[i]) = r}
  IN IF hits = {} THEN k ELSE CHOOSE i \in hits : \A j \in hits : i <= j

\* the iterations k..m of the shuffle loop
RECURSIVE StackedTo(_, _, _, _)
StackedTo(d, top, k, m) ==
  IF k > m \/ k > Len(top) \/ k > Len(d) THEN d
  ELSE StackedTo(Relocate(d, FirstOf(d, top[k], k), k), top, k + 1, m)

\* the iterations from k on, eight at a time
RECURSIVE Stacked(_, _, _)
Stacked(d, top, k) ==
  IF k > Len(top) \/ k > Len(d) THEN d
  ELSE Stacked(StackedTo(d, top, k, k + 7), top, k + 8)

\* the decks shufDk can leave: the random draws are bounded to TopLen moves
\* that bring a card of a chosen rank to positions 1, 2, ...; TopsTo lists
\* the first len of these choices
TopsTo(R1, R2, len) ==
  {top \in [1..len -> R1 \cup R2] :
     \A k \in 1..len : top[k] \in (IF k <= HeadLen THEN R1 ELSE R2)}

Tops(R1, R2) == TopsTo(R1, R2, TopLen)

\* a deck shorter than TopLen is left by its first Len(d) moves
shufDk(d) ==
  IF d = <<>> THEN {d}
  ELSE {Stacked(d, top, 1) :
          top \in TopsTo(StackRanks, TailRanks, IF Len(d) < TopLen THEN Len(d) ELSE TopLen)}

NoCard == 0

\* mutation: the recovery leaves the discard pile as it was
dealCrd_keep(dk, dp) ==
  IF dk # <<>>
  THEN {[ok |-> TRUE, deck |-> Tail(dk), dis |-> dp, card |-> Head(dk)]}
  ELSE IF dp = <<>>
       THEN {[ok |-> FALSE, deck |-> <<>>, dis |-> <<>>, card |-> NoCard]}
       ELSE {[ok |-> TRUE, deck |-> Tail(s), dis |-> dp, card |-> Head(s)] :
               s \in shufDk(Reverse(dp))}

\* dealCrd: the outcomes of one draw; ok = FALSE is the runtime_error
dealCrd(dk, dp) ==
  IF dk # <<>>
  THEN {[ok |-> TRUE, deck |-> Tail(dk), dis |-> dp, card |-> Head(dk)]}
  ELSE IF dp = <<>>
       THEN {[ok |-> FALSE, deck |-> <<>>, dis |-> <<>>, card |-> NoCard]}
       ELSE {[ok |-> TRUE, deck |-> Tail(s), dis |-> <<>>, card |-> Head(s)] :
               s \in shufDk(Reverse(dp))}

\* mutation: the hand keeps its cards
discHnd_keep(hand) == [hand EXCEPT !.bet = 0]

\* discHnd: the hand after discarding, and the pile it leaves
discHnd(hand) == [hand EXCEPT !.cards = <<>>, !.bet = 0]

discPile(dp, hand) == dp \o hand.cards

(***************************************************************************)
(* State.                                                                  *)
(***************************************************************************)
VARIABLES
  deck,      \* std::list<Card> deck, front first
  disPile,   \* std::stack<Card> disPile, top last
  playQue,   \* std::queue<Player*> playQue: positions in plyrs, front first
  plyrs,     \* std::list<Player> plyrs of runGame
  dealr,     \* Player dealr of runGame
  initChp,   \* std::map initChp of playRnd
  pc,        \* position of the program
  rounds,    \* rounds started in the play-again loop
  bi,        \* player reached by the bet for_each of playRnd
  cur,       \* player popped from playQue (p of the actions phase)
  it,        \* hand iterator of hdlPlay
  dealrNat,  \* bool dealrNat of playRnd
  d_score,   \* int d_score of playRnd
  si,        \* player reached by the settlement for_each
  sj,        \* hand reached by the settlement loop
  err,       \* the catch block of runGame was entered
  agnIn,     \* the answers still to be typed at "Play another round?"
  last       \* history: the step taken last

vars == <<deck, disPile, playQue, plyrs, dealr, initChp, pc, rounds, bi, cur, it,
          dealrNat, d_score, si, sj, err, agnIn, last>>

Step(op, p, h, c) == [op |-> op, p |-> p, h |-> h, choice |-> c]

NewPlayer(i) == [id |-> i, chips |-> StartChips, hands |-> <<>>]

Dealer0 == [id |-> 0, chips |-> 0, hands |-> <<NewHand>>]

\* the shuffles of the sessions with several rounds or players: outcomes of
\* shufDk with fewer ranks
NarrowTops ==
  {top \in Tops(NarrowRanks, {NarrowTail}) :
     \A k \in 1..HeadLen : k > HeadLen \div 2 => top[k] = NarrowFill}

NarrowDecks == {Stacked(createDk(NumDk), top, 1) : top \in NarrowTops}

Answers(k) == [i \in 1..(k + 1) |-> IF i <= k THEN "Y" ELSE "N"]

CapPlay == IF MaxPlay > 3 THEN 3 ELSE MaxPlay

\* a shuffle for n players that deals the dealer an ace and a ten in the
\* first round, and tens to everybody in that round and the next
LosingTop(n) == [k \in 1..(4 * n + 4) |-> IF k = n + 1 THEN "A" ELSE "10"]

\* the sessions explored: the number of players entered at setup, the deck
\* that createDk(4) and shufDk leave in runGame, the cards of it that
\* earlier rounds have played into the discard pile, and the answers that
\* will be typed at "Play another round?"; np is the largest number of
\* players, and the sessions in which players go broke have two
Sessions(np) ==
  {[n |-> 1, deck |-> d, played |-> 0, agn |-> Answers(0)] :
     d \in shufDk(createDk(NumDk))}
  \cup {[n |-> 1, deck |-> d, played |-> 0, agn |-> Answers(k)] :
          d \in NarrowDecks, k \in 1..(MaxRounds - 1)}
  \cup {[n |-> n, deck |-> d, played |-> 0, agn |-> Answers(0)] :
          d \in NarrowDecks, n \in 2..np}
  \cup {[n |-> n, deck |-> Stacked(createDk(NumDk), LosingTop(n), 1),
         played |-> 0, agn |-> Answers(k)] :
          n \in {2} \cap (2..np), k \in 1..(MaxRounds - 1)}
  \cup {[n |-> 1, deck |-> Stacked(createDk(NumDk), [j \in 1..TopLen |-> "10"], 1),
         played |-> m, agn |-> Answers(0)] : m \in PlayedBefore}

Init ==
  /\ \E ss \in Sessions(CapPlay) :
       /\ plyrs = [i \in 1..ss.n |-> NewPlayer(i)]
       /\ deck = SubSeq(ss.deck, ss.played + 1, Len(ss.deck))
       /\ disPile = SubSeq(ss.deck, 1, ss.played)
       /\ agnIn = ss.agn
  /\ dealr = Dealer0
  /\ playQue = <<>>
  /\ initChp = <<>>
  /\ pc = "loop"
  /\ rounds = 0
  /\ bi = 0
  /\ cur = 0
  /\ it = 0
  /\ dealrNat = FALSE
  /\ d_score = 0
  /\ si = 0
  /\ sj = 0
  /\ err = FALSE
  /\ last = Step("init", 0, 0, "")

(***************************************************************************)
(* Operations on the supply, the players and the dealer, as one record.    *)
(* ok = FALSE: dealCrd has thrown and the operation was abandoned there.   *)
(***************************************************************************)
Now == [deck |-> deck, dis |-> disPile, plyrs |-> plyrs, dealr |-> dealr, ok |-> TRUE]

\* dealCrd(trgLst) with trgLst the cards of hand h of player p, or of the
\* dealer's hand when p = 0
GiveCard(st, p, h) ==
  IF ~st.ok THEN {st}
  ELSE {IF ~o.ok
          THEN [st EXCEPT !.ok = FALSE, !.deck = o.deck, !.dis = o.dis]
          ELSE IF p = 0
                 THEN [st EXCEPT !.deck = o.deck, !.dis = o.dis,
                                 !.dealr.hands[1].cards = Append(@, o.card)]
                 ELSE [st EXCEPT !.deck = o.deck, !.dis = o.dis,
                                 !.plyrs[p].hands[h].cards = Append(@, o.card)] :
        o \in dealCrd(st.deck, st.dis)}

\* mutation: no card is dealt
playHit_none(st, p, h) == {st}

playHit(st, p, h) == GiveCard(st, p, h)

\* curIt++; p.hands.insert(curIt, newHnd); curIt--
insertAfter(hands, h, newHnd) == InsertAt(hands, h + 1, newHnd)

\* mutation: the chips are never found too few
shortOf_never(chips, bet) == FALSE

\* the check "not enough chips" of playSplt and playDD
shortOf(chips, bet) == chips < bet

\* dealCrd(curIt->cards) with curIt == p.hands.end(): the target is not the
\* cards of a hand. Undefined behaviour; its outcomes are that the process
\* is killed at the write (observed with g++ 12: SIGSEGV), or that the write
\* lands outside the hands and dealCrd completes, so that the card leaves
\* the supply and enters no hand. With nothing left to draw dealCrd throws
\* before it writes.
strayDeal(st) ==
  (IF st.deck \o st.dis # <<>> THEN {[st |-> st, crash |-> TRUE]} ELSE {})
    \cup {[st |-> IF o.ok THEN [st EXCEPT !.deck = o.deck, !.dis = o.dis]
                  ELSE [st EXCEPT !.ok = FALSE, !.deck = o.deck, !.dis = o.dis],
           crash |-> FALSE] : o \in dealCrd(st.deck, st.dis)}

\* playSplt(p, curIt) with curIt on hand h: the outcomes, each with the
\* position it leaves the iterator on. After curIt++, insert, curIt-- the
\* iterator is on the new hand (h + 1); dealCrd(origHnd.cards) deals to the
\* hand that was split; curIt++, dealCrd(curIt->cards), curIt-- deals to the
\* hand behind the new one, or, with the new hand last in the list, to
\* p.hands.end()
playSplt(st, p, h) ==
  LET origHnd == st.plyrs[p].hands[h]
      tag == IF rank(origHnd.cards[1]) = "A" THEN "aces" ELSE "split"
      newHnd == [NewHand EXCEPT !.bet = origHnd.bet, !.isplit = TRUE,
                                !.cards = <<origHnd.cards[2]>>, !.org = tag]
      kept == [origHnd EXCEPT !.cards = <<origHnd.cards[1]>>, !.org = tag]
      st1 == [st EXCEPT !.plyrs[p].hands =
                           insertAfter([@ EXCEPT ![h] = kept], h, newHnd),
                        !.plyrs[p].chips = @ - newHnd.bet]
      same == {[st |-> st, it |-> h, crash |-> FALSE]}
  IN IF Len(origHnd.cards) # 2 \/ rank(origHnd.cards[1]) # rank(origHnd.cards[2])
       THEN same
       ELSE IF shortOf(st.plyrs[p].chips, origHnd.bet)
              THEN same
              ELSE UNION {IF ~s2.ok
                            THEN {[st |-> s2, it |-> h + 1, crash |-> FALSE]}
                            ELSE IF h + 2 <= Len(s2.plyrs[p].hands)
                                   THEN {[st |-> s3, it |-> h + 1, crash |-> FALSE] :
                                           s3 \in GiveCard(s2, p, h + 2)}
                                   ELSE {[st |-> o.st, it |-> h + 1, crash |-> o.crash] :
                                           o \in strayDeal(s2)} :
                          s2 \in GiveCard(st1, p, h)}

\* mutation: the double down takes no chips
playDD_free(st, p, h) ==
  LET hand == st.plyrs[p].hands[h]
  IN IF Len(hand.cards) # 2
       THEN {st}
       ELSE IF shortOf(st.plyrs[p].chips, hand.bet)
              THEN {st}
              ELSE playHit([st EXCEPT !.plyrs[p].hands[h].bet = @ * 2,
                                      !.plyrs[p].hands[h].ddown = TRUE], p, h)

playDD(st, p, h) ==
  LET hand == st.plyrs[p].hands[h]
  IN IF Len(hand.cards) # 2
       THEN {st}
       ELSE IF shortOf(st.plyrs[p].chips, hand.bet)
              THEN {st}
              ELSE playHit([st EXCEPT !.plyrs[p].chips = @ - hand.bet,
                                      !.plyrs[p].hands[h].bet = @ * 2,
                                      !.plyrs[p].hands[h].ddown = TRUE], p, h)

\* the branch of setHnd that a hand takes against the dealer's hand
setBranch(hand, dlHnd) ==
  LET p_score == calcScr(hand)
      dl_score == calcScr(dlHnd)
  IN IF p_score > 21 THEN "bust"
     ELSE IF is_nat(hand) /\ is_nat(dlHnd) THEN "natpush"
     ELSE IF is_nat(hand) THEN "natural"
     ELSE IF dl_score > 21 THEN "dealerbust"
     ELSE IF is_nat(dlHnd) THEN "dealernat"
     ELSE IF p_score > dl_score THEN "win"
     ELSE IF p_score < dl_score THEN "lose"
     ELSE "push"

\* mutation: a natural is paid like any other win
setCredit_even(hand, dlHnd) ==
  LET b == setBranch(hand, dlHnd)
  IN CASE b = "natpush" -> hand.bet
       [] b = "natural" -> hand.bet * 2
       [] b = "dealerbust" -> hand.bet * 2
       [] b = "win" -> hand.bet * 2
       [] b = "push" -> hand.bet
       [] OTHER -> 0

\* what setHnd adds to p.chips; static_cast<int>(hand.bet * 1.5) of a
\* non-negative bet is (3 * bet) \div 2
setCredit(hand, dlHnd) ==
  LET b == setBranch(hand, dlHnd)
  IN CASE b = "natpush" -> hand.bet
       [] b = "natural" -> hand.bet + ((hand.bet * 3) \div 2)
       [] b = "dealerbust" -> hand.bet * 2
       [] b = "win" -> hand.bet * 2
       [] b = "push" -> hand.bet
       [] OTHER -> 0

\* setHnd on hand h of player p
setHnd(st, p, h) ==
  LET hand == st.plyrs[p].hands[h]
  IN [st EXCEPT !.plyrs[p].chips = @ + setCredit(hand, st.dealr.hands[1]),
                !.plyrs[p].hands[h] = discHnd(hand),
                !.dis = discPile(@, hand)]

\* mutation: a hand flagged isplit may be split again
canSplt_again(hand) ==
  Len(hand.cards) = 2 /\ rank(hand.cards[1]) = rank(hand.cards[2])

\* mutation: a double down is offered on any number of cards
canDbl_any(p, hand) == p.chips >= hand.bet

\* the conditions hdlPlay computes before the prompt
canSplt(hand) ==
  Len(hand.cards) = 2 /\ rank(hand.cards[1]) = rank(hand.cards[2]) /\ ~hand.isplit

canDbl(p, hand) == Len(hand.cards) = 2 /\ p.chips >= hand.bet

\* the check of hdlPlay for a split pair of aces
splitAces(hand) ==
  hand.isplit /\ Len(hand.cards) = 2
    /\ rank(hand.cards[1]) = "A" /\ rank(hand.cards[2]) = "A"

\* mutation: a score of 21 does not end the turn
autoStop_bust(score) == score > 21

\* the two breaks at the head of the inner loop of hdlPlay
autoStop(score) == score > 21 \/ score = 21

\* mutation: the bet prompt does not compare the bet with the chips
validBet_any(betAmt, chips) == ~(betAmt < 1)

\* a bet the bet prompt accepts
validBet(betAmt, chips) == ~(betAmt < 1 \/ betAmt > chips)

\* the answers read at the action prompt, after toupper
Choices == {"H", "S", "D", "P", "X"}

(***************************************************************************)
(* runGame: the head of the play-again loop, up to the first bet prompt    *)
(* of playRnd.                                                             *)
(***************************************************************************)
\* mutation: a player without chips stays
stillIn_broke(ps) == SelectSeq(ps, LAMBDA p : ~(p.chips < 0))

\* plyrs after remove_if (chips < 1)
stillIn(ps) == SelectSeq(ps, LAMBDA p : ~(p.chips < 1))

\* the check "dealer's hand needs reset" of runGame
dealrReset(d) ==
  IF d.hands # <<>> /\ d.hands[1].bet > 0
    THEN [d EXCEPT !.hands[1] = discHnd(@)]
    ELSE IF d.hands = <<>> THEN [d EXCEPT !.hands = <<NewHand>>] ELSE d

pileReset(d, dp) ==
  IF d.hands # <<>> /\ d.hands[1].bet > 0 THEN discPile(dp, d.hands[1]) ELSE dp

GameOver ==
  /\ pc = "loop"
  /\ stillIn(plyrs) = <<>>
  /\ plyrs' = stillIn(plyrs)
  /\ pc' = "end"
  /\ last' = Step("GameOver", 0, 0, "")
  /\ UNCHANGED <<deck, disPile, playQue, dealr, initChp, rounds, bi, cur, it,
                 dealrNat, d_score, si, sj, err, agnIn>>

\* mutation: a deck of exactly LowMark cards is rebuilt too
lowDeck_at(n) == n <= LowMark

\* the reshuffle check of playRnd
lowDeck(n) == n < LowMark

StartRound(rebuild) ==
  /\ pc = "loop"
  /\ stillIn(plyrs) # <<>>
  /\ rebuild = lowDeck(Len(deck))
  /\ plyrs' = stillIn(plyrs)
  /\ dealr' = dealrReset(dealr)
  /\ IF rebuild
       THEN /\ deck' \in shufDk(createDk(NumDk))
            /\ disPile' = <<>>
       ELSE /\ deck' = deck
            /\ disPile' = pileReset(dealr, disPile)
  /\ initChp' = [i \in 1..Len(stillIn(plyrs)) |-> stillIn(plyrs)[i].chips]
  /\ rounds' = rounds + 1
  /\ bi' = 1
  /\ pc' = "bet"
  /\ last' = Step("StartRound", 0, 0, IF rebuild THEN "rebuild" ELSE "")
  /\ UNCHANGED <<playQue, cur, it, dealrNat, d_score, si, sj, err, agnIn>>

StartRoundRebuild == StartRound(TRUE)

StartRoundKeep == StartRound(FALSE)

(***************************************************************************)
(* playRnd: bets, initial deal.                                            *)
(***************************************************************************)
RejectBet ==
  /\ pc = "bet"
  /\ \E betAmt \in BetInputs :
       /\ ~validBet(betAmt, plyrs[bi].chips)
       /\ last' = Step("RejectBet", bi, 0, "")
  /\ UNCHANGED <<deck, disPile, playQue, plyrs, dealr, initChp, pc, rounds, bi,
                 cur, it, dealrNat, d_score, si, sj, err, agnIn>>

\* mutation: the player is put at the front of the queue
quePush_front(q, p) == <<p>> \o q

\* playQue.push(&p)
quePush(q, p) == Append(q, p)

PlaceBet ==
  /\ pc = "bet"
  /\ \E betAmt \in BetInputs :
       /\ validBet(betAmt, plyrs[bi].chips)
       /\ plyrs' = [plyrs EXCEPT ![bi].hands = [Append(@, NewHand) EXCEPT ![1].bet = betAmt],
                                 ![bi].chips = @ - betAmt]
  /\ playQue' = quePush(playQue, bi)
  /\ bi' = bi + 1
  /\ pc' = IF bi = Len(plyrs) THEN "deal" ELSE "bet"
  /\ last' = Step("PlaceBet", bi, 1, "")
  /\ UNCHANGED <<deck, disPile, dealr, initChp, rounds, cur, it, dealrNat,
                 d_score, si, sj, err, agnIn>>

\* mutation: the dealer is dealt to before the players
dealOrder_first(q) == <<0>> \o q \o <<0>> \o q

\* the targets of the initial deal in order; 0 is the dealer
dealOrder(q) == q \o <<0>> \o q \o <<0>>

RECURSIVE DealAll(_, _)
DealAll(st, tg) ==
  IF tg = <<>> THEN {st}
  ELSE UNION {DealAll(s2, Tail(tg)) : s2 \in GiveCard(st, Head(tg), 1)}

\* mutation: after the runtime_error the round goes on
Apply_resume(st, pcOk) ==
  /\ deck' = st.deck
  /\ disPile' = st.dis
  /\ plyrs' = st.plyrs
  /\ dealr' = st.dealr
  /\ err' = (err \/ ~st.ok)
  /\ pc' = pcOk

\* the assignments common to the steps that draw cards
Apply(st, pcOk) ==
  /\ deck' = st.deck
  /\ disPile' = st.dis
  /\ plyrs' = st.plyrs
  /\ dealr' = st.dealr
  /\ err' = (err \/ ~st.ok)
  /\ pc' = IF st.ok THEN pcOk ELSE "end"

InitialDeal ==
  /\ pc = "deal"
  /\ \E st \in DealAll(Now, dealOrder(playQue)) :
       /\ Apply(st, "act")
       /\ dealrNat' = IF st.ok THEN is_nat(st.dealr.hands[1]) ELSE dealrNat
  /\ last' = Step("InitialDeal", 0, 0, "")
  /\ UNCHANGED <<playQue, initChp, rounds, bi, cur, it, d_score, si, sj, agnIn>>

(***************************************************************************)
(* playRnd: the player actions phase, and hdlPlay.                         *)
(***************************************************************************)
\* mutation: the actions phase ends with one player left in the queue
queEmpty_early(q) == Len(q) <= 1

\* playQue.empty(), the condition of the loop of the actions phase
queEmpty(q) == q = <<>>

\* mutation: hdlPlay is called whether or not the dealer holds a natural
TakeTurn_always ==
  /\ pc = "act"
  /\ ~queEmpty(playQue)
  /\ cur' = Head(playQue)
  /\ playQue' = Tail(playQue)
  /\ it' = 1
  /\ pc' = "hand"
  /\ last' = Step("TakeTurn", Head(playQue), 0, "")
  /\ UNCHANGED <<deck, disPile, plyrs, dealr, initChp, rounds, bi, dealrNat,
                 d_score, si, sj, err, agnIn>>

TakeTurn ==
  /\ pc = "act"
  /\ ~queEmpty(playQue)
  /\ ~dealrNat
  /\ cur' = Head(playQue)
  /\ playQue' = Tail(playQue)
  /\ it' = 1
  /\ pc' = "hand"
  /\ last' = Step("TakeTurn", Head(playQue), 0, "")
  /\ UNCHANGED <<deck, disPile, plyrs, dealr, initChp, rounds, bi, dealrNat,
                 d_score, si, sj, err, agnIn>>

SkipTurn ==
  /\ pc = "act"
  /\ ~queEmpty(playQue)
  /\ dealrNat
  /\ cur' = Head(playQue)
  /\ playQue' = Tail(playQue)
  /\ last' = Step("SkipTurn", Head(playQue), 0, "")
  /\ UNCHANGED <<deck, disPile, plyrs, dealr, initChp, pc, rounds, bi, it,
                 dealrNat, d_score, si, sj, err, agnIn>>

curHnd == plyrs[cur].hands[it]

AtHand == pc = "hand" /\ it <= Len(plyrs[cur].hands)

\* it == p.hands.end(): hdlPlay returns
HandsDone ==
  /\ pc = "hand"
  /\ it > Len(plyrs[cur].hands)
  /\ pc' = "act"
  /\ last' = Step("HandsDone", cur, it, "")
  /\ UNCHANGED <<deck, disPile, playQue, plyrs, dealr, initChp, rounds, bi, cur,
                 it, dealrNat, d_score, si, sj, err, agnIn>>

NextHand(op, c) ==
  /\ it' = it + 1
  /\ pc' = "hand"
  /\ last' = Step(op, cur, it, c)
  /\ UNCHANGED <<deck, disPile, playQue, plyrs, dealr, initChp, rounds, bi, cur,
                 dealrNat, d_score, si, sj, err, agnIn>>

\* the two checks at the head of the outer loop of hdlPlay that move to the
\* next hand without a prompt: a doubled hand, a split pair of aces
skipHand(hand) == IF hand.ddown THEN TRUE ELSE splitAces(hand)

\* the head of the outer loop of hdlPlay: a hand that one of the two checks
\* catches is left without a prompt, any other enters the inner loop with
\* split = false. (No hand is caught: a hand is entered before it is doubled,
\* and the hand that playSplt flags is entered with one card.)
EnterHand ==
  /\ AtHand
  /\ IF skipHand(curHnd)
       THEN NextHand(IF curHnd.ddown THEN "SkipDdown" ELSE "SkipSplitAces", "")
       ELSE /\ pc' = "inner"
            /\ last' = Step("EnterHand", cur, it, "")
            /\ UNCHANGED <<deck, disPile, playQue, plyrs, dealr, initChp, rounds,
                           bi, cur, it, dealrNat, d_score, si, sj, err, agnIn>>

\* the prompt is reached
Prompted == pc = "inner" /\ ~autoStop(calcScr(curHnd))

AutoStop ==
  /\ pc = "inner"
  /\ autoStop(calcScr(curHnd))
  /\ NextHand("AutoStop", "")

Hit ==
  /\ Prompted
  /\ \E st \in playHit(Now, cur, it) : Apply(st, "inner")
  /\ last' = Step("Hit", cur, it, "H")
  /\ UNCHANGED <<playQue, initChp, rounds, bi, cur, it, dealrNat, d_score, si, sj, agnIn>>

Stand ==
  /\ Prompted
  /\ NextHand("Stand", "S")

DoubleDown ==
  /\ Prompted
  /\ canDbl(plyrs[cur], curHnd)
  /\ \E st \in playDD(Now, cur, it) :
       /\ Apply(st, "hand")
       /\ it' = IF st.ok THEN it + 1 ELSE it
  /\ last' = Step("DoubleDown", cur, it, "D")
  /\ UNCHANGED <<playQue, initChp, rounds, bi, cur, dealrNat, d_score, si, sj, agnIn>>

\* choice "P" with canSplt: playSplt, then split = true and break, which
\* leaves the iterator where playSplt has put it
Split ==
  /\ Prompted
  /\ canSplt(curHnd)
  /\ \E o \in playSplt(Now, cur, it) :
       /\ IF o.crash
            THEN /\ deck' = o.st.deck
                 /\ disPile' = o.st.dis
                 /\ plyrs' = o.st.plyrs
                 /\ dealr' = o.st.dealr
                 /\ err' = err
                 /\ pc' = "crash"
            ELSE Apply(o.st, "hand")
       /\ it' = o.it
  /\ last' = Step("Split", cur, it, "P")
  /\ UNCHANGED <<playQue, initChp, rounds, bi, cur, dealrNat, d_score, si, sj, agnIn>>

\* the final else of the choice handling: the prompt is repeated
Invalid ==
  /\ Prompted
  /\ \E c \in Choices \ {"H", "S"} :
       /\ ~(c = "D" /\ canDbl(plyrs[cur], curHnd))
       /\ ~(c = "P" /\ canSplt(curHnd))
       /\ last' = Step("Invalid", cur, it, c)
  /\ UNCHANGED <<deck, disPile, playQue, plyrs, dealr, initChp, pc, rounds, bi,
                 cur, it, dealrNat, d_score, si, sj, err, agnIn>>

(***************************************************************************)
(* playRnd: dealer play, settlement, cleanup.                              *)
(***************************************************************************)
\* mutation: the dealer also draws on 17
dealrHits_on17(score) == score < 18

\* mutation: the dealer draws up to 21
dealrHits_to21(score) == score < 21

\* the condition of the dealer's draw loop
dealrHits(score) == score < 17

BeginDealer ==
  /\ pc = "act"
  /\ queEmpty(playQue)
  /\ d_score' = calcScr(dealr.hands[1])
  /\ pc' = "dealer"
  /\ last' = Step("BeginDealer", 0, 0, "")
  /\ UNCHANGED <<deck, disPile, playQue, plyrs, dealr, initChp, rounds, bi, cur,
                 it, dealrNat, si, sj, err, agnIn>>

DealerHit ==
  /\ pc = "dealer"
  /\ ~dealrNat
  /\ dealrHits(d_score)
  /\ \E st \in GiveCard(Now, 0, 1) :
       /\ Apply(st, "dealer")
       /\ d_score' = IF st.ok THEN calcScr(st.dealr.hands[1]) ELSE d_score
  /\ last' = Step("DealerHit", 0, 1, "")
  /\ UNCHANGED <<playQue, initChp, rounds, bi, cur, it, dealrNat, si, sj, agnIn>>

DealerDone ==
  /\ pc = "dealer"
  /\ dealrNat \/ ~dealrHits(d_score)
  /\ pc' = "settle"
  /\ si' = 1
  /\ sj' = 1
  /\ last' = Step("DealerDone", 0, 1, "")
  /\ UNCHANGED <<deck, disPile, playQue, plyrs, dealr, initChp, rounds, bi, cur,
                 it, dealrNat, d_score, err, agnIn>>

\* one iteration of the loop over p.hands in the settlement for_each
SettleHand ==
  /\ pc = "settle"
  /\ si <= Len(plyrs)
  /\ sj <= Len(plyrs[si].hands)
  /\ LET hand == plyrs[si].hands[sj]
         st == IF hand.bet > 0
                 THEN setHnd(Now, si, sj)
                 ELSE [Now EXCEPT !.plyrs[si].hands[sj] = discHnd(hand),
                                  !.dis = discPile(@, hand)]
     IN /\ plyrs' = st.plyrs
        /\ disPile' = st.dis
        /\ last' = Step("SettleHand", si, sj,
                        IF hand.bet > 0 THEN setBranch(hand, dealr.hands[1]) ELSE "unbet")
  /\ sj' = sj + 1
  /\ UNCHANGED <<deck, playQue, dealr, initChp, pc, rounds, bi, cur, it, dealrNat,
                 d_score, si, err, agnIn>>

\* p.hands.remove_if(cards.empty()), and the for_each moves on
PruneHands ==
  /\ pc = "settle"
  /\ si <= Len(plyrs)
  /\ sj > Len(plyrs[si].hands)
  /\ plyrs' = [plyrs EXCEPT ![si].hands = SelectSeq(@, LAMBDA h : h.cards # <<>>)]
  /\ si' = si + 1
  /\ sj' = 1
  /\ last' = Step("PruneHands", si, 0, "")
  /\ UNCHANGED <<deck, disPile, playQue, dealr, initChp, pc, rounds, bi, cur, it,
                 dealrNat, d_score, err, agnIn>>

DiscardDealer ==
  /\ pc = "settle"
  /\ si > Len(plyrs)
  /\ dealr' = [dealr EXCEPT !.hands[1] = discHnd(@)]
  /\ disPile' = discPile(disPile, dealr.hands[1])
  /\ pc' = "summary"
  /\ last' = Step("DiscardDealer", 0, 1, "")
  /\ UNCHANGED <<deck, playQue, plyrs, initChp, rounds, bi, cur, it, dealrNat,
                 d_score, si, sj, err, agnIn>>

(***************************************************************************)
(* runGame: "Play another round?"                                          *)
(***************************************************************************)
PlayAgainYes ==
  /\ pc = "summary"
  /\ Head(agnIn) = "Y"
  /\ agnIn' = Tail(agnIn)
  /\ pc' = "loop"
  /\ last' = Step("PlayAgain", 0, 0, "Y")
  /\ UNCHANGED <<deck, disPile, playQue, plyrs, dealr, initChp, rounds, bi, cur,
                 it, dealrNat, d_score, si, sj, err>>

PlayAgainNo ==
  /\ pc = "summary"
  /\ Head(agnIn) # "Y"
  /\ agnIn' = Tail(agnIn)
  /\ pc' = "end"
  /\ last' = Step("PlayAgain", 0, 0, "N")
  /\ UNCHANGED <<deck, disPile, playQue, plyrs, dealr, initChp, rounds, bi, cur,
                 it, dealrNat, d_score, si, sj, err>>

Next ==
  \/ GameOver
  \/ StartRoundRebuild
  \/ StartRoundKeep
  \/ RejectBet
  \/ PlaceBet
  \/ InitialDeal
  \/ TakeTurn
  \/ SkipTurn
  \/ HandsDone
  \/ EnterHand
  \/ AutoStop
  \/ Hit
  \/ Stand
  \/ DoubleDown
  \/ Split
  \/ Invalid
  \/ BeginDealer
  \/ DealerHit
  \/ DealerDone
  \/ SettleHand
  \/ PruneHands
  \/ DiscardDealer
  \/ PlayAgainYes
  \/ PlayAgainNo

Spec == Init /\ [][Next]_vars

\* the dealer's play asks for no input: playRnd runs the draw loop and goes
\* on to the settlement without waiting
SpecFair == Init /\ [][Next]_vars /\ WF_vars(DealerHit) /\ WF_vars(DealerDone)

(***************************************************************************)
(* setHnd on its own: one hand of a player against a dealer's hand, both   *)
(* drawn from the hands of up to SettleLen cards of the ranks SettleRanks. *)
(***************************************************************************)
SettleLen == 3

SettleRanks == {"A", "K", "10", "9", "8", "5"}

SettleBets == {5, 10}

SettleCards == {c \in 1..52 : rank(c) \in SettleRanks /\ suit(c) = "S"}

\* the order of the cards of a hand does not enter setHnd: one order each
SettleHands ==
  {s \in UNION {[1..n -> SettleCards] : n \in 2..SettleLen} :
     \A i \in 1..(Len(s) - 1) : s[i] <= s[i + 1]}

InitSettle ==
  /\ \E ph \in SettleHands, b \in SettleBets, f \in BOOLEAN :
       plyrs = <<[id |-> 1, chips |-> 0,
                  hands |-> <<[NewHand EXCEPT !.cards = ph, !.bet = b, !.isplit = f,
                                              !.org = IF f THEN "split" ELSE "deal"]>>]>>
  /\ \E dh \in SettleHands :
       dealr = [id |-> 0, chips |-> 0, hands |-> <<[NewHand EXCEPT !.cards = dh]>>]
  /\ deck = <<>>
  /\ disPile = <<>>
  /\ playQue = <<>>
  /\ initChp = <<>>
  /\ pc = "settle"
  /\ rounds = 1
  /\ bi = 2
  /\ cur = 1
  /\ it = 2
  /\ dealrNat = FALSE
  /\ d_score = 0
  /\ si = 1
  /\ sj = 1
  /\ err = FALSE
  /\ agnIn = Answers(0)
  /\ last = Step("init", 0, 0, "")

NextSettle ==
  \/ SettleHand
  \/ PruneHands
  \/ DiscardDealer

SpecSettle == InitSettle /\ [][NextSettle]_vars

(***************************************************************************)
(* dealCrd with a supply that runs out. A round draws fewer than LowMark   *)
(* cards (three players who split and draw low cards take about 55), so a  *)
(* session of the game never finds the deck empty: the branch of dealCrd   *)
(* for an empty deck and the handler of its runtime_error are the          *)
(* contract of the operation, and are exercised here on the actions phase  *)
(* of a round entered with at most LeftOver cards in the deck and at most  *)
(* LeftOver cards in the discard pile.                                     *)
(***************************************************************************)
\* the bet of every player in these rounds
DrawBet == 10

\* the most cards in the deck, and in the discard pile, when the round is
\* entered
LeftOver == 2

\* the card of a rank in the first suit
DrawCard(r) == CHOOSE c \in 1..52 : rank(c) = r /\ suit(c) = SUITS[1]

\* the hands the players hold after the initial deal
DrawHands == {<<DrawCard("5"), DrawCard("5")>>,
              <<DrawCard("10"), DrawCard("6")>>,
              <<DrawCard("A"), DrawCard("10")>>}

\* the dealer's hand after the initial deal
DrawDealer == {<<DrawCard("10"), DrawCard("6")>>,
               <<DrawCard("A"), DrawCard("K")>>}

\* the cards left in the deck, and those in the discard pile
DrawDecks == UNION {[1..n -> {DrawCard("2"), DrawCard("Q")}] : n \in 0..LeftOver}

DrawPiles == UNION {[1..n -> {DrawCard("5"), DrawCard("K")}] : n \in 0..LeftOver}

InitDraw ==
  /\ \E n \in 1..CapPlay : \E hs \in [1..n -> DrawHands] :
       /\ plyrs = [i \in 1..n |->
                     [NewPlayer(i) EXCEPT
                        !.chips = @ - DrawBet,
                        !.hands = <<[NewHand EXCEPT !.cards = hs[i],
                                                    !.bet = DrawBet]>>]]
       /\ playQue = [i \in 1..n |-> i]
       /\ initChp = [i \in 1..n |-> StartChips]
       /\ bi = n + 1
  /\ \E dh \in DrawDealer :
       /\ dealr = [Dealer0 EXCEPT !.hands = <<[NewHand EXCEPT !.cards = dh]>>]
       /\ dealrNat = is_nat([NewHand EXCEPT !.cards = dh])
  /\ deck \in DrawDecks
  /\ disPile \in DrawPiles
  /\ pc = "act"
  /\ cur = 0
  /\ it = 0
  /\ rounds = 1
  /\ d_score = 0
  /\ si = 0
  /\ sj = 0
  /\ err = FALSE
  /\ agnIn = Answers(0)
  /\ last = Step("InitialDeal", 0, 0, "")

NextDraw ==
  \/ TakeTurn
  \/ SkipTurn
  \/ HandsDone
  \/ EnterHand
  \/ AutoStop
  \/ Hit
  \/ Stand
  \/ DoubleDown
  \/ Split
  \/ Invalid
  \/ BeginDealer
  \/ DealerHit
  \/ DealerDone
  \/ SettleHand
  \/ PruneHands
  \/ DiscardDealer
  \/ PlayAgainNo

SpecDraw == InitDraw /\ [][NextDraw]_vars

(***************************************************************************)
(* Sessions of one player whose shuffle brings cards of the ranks          *)
(* ScoreRanks to the first ScoreLen positions of the deck: the hands of    *)
(* the first round, with hits and stands only.                             *)
(***************************************************************************)
ScoreLen == 6

ScoreRanks == {"A", "9", "5", "K"}

\* the decks that bring cards of the ranks ScoreRanks to the first len
\* positions
ScoreDecks(len) ==
  {Stacked(createDk(NumDk), top, 1) : top \in [1..len -> ScoreRanks]}

InitScore ==
  /\ plyrs = [i \in 1..1 |-> NewPlayer(i)]
  /\ deck \in ScoreDecks(ScoreLen)
  /\ disPile = <<>>
  /\ agnIn = Answers(0)
  /\ dealr = Dealer0
  /\ playQue = <<>>
  /\ initChp = <<>>
  /\ pc = "loop"
  /\ rounds = 0
  /\ bi = 0
  /\ cur = 0
  /\ it = 0
  /\ dealrNat = FALSE
  /\ d_score = 0
  /\ si = 0
  /\ sj = 0
  /\ err = FALSE
  /\ last = Step("init", 0, 0, "")

NextScore ==
  \/ StartRoundKeep
  \/ PlaceBet
  \/ InitialDeal
  \/ TakeTurn
  \/ SkipTurn
  \/ HandsDone
  \/ EnterHand
  \/ AutoStop
  \/ Hit
  \/ Stand
  \/ BeginDealer
  \/ DealerHit
  \/ DealerDone

SpecScore == InitScore /\ [][NextScore]_vars

(***************************************************************************)
(* Properties.                                                             *)
(***************************************************************************)
Players == 1..Len(plyrs)

HandsOf(p) == 1..Len(plyrs[p].hands)

RECURSIVE Flatten(_)
Flatten(ss) == IF ss = <<>> THEN <<>> ELSE Head(ss) \o Flatten(Tail(ss))

HandCards(p) == Flatten([h \in HandsOf(p) |-> plyrs[p].hands[h].cards])

\* every card outside the deck and the discard pile
LiveCards ==
  Flatten([p \in Players |-> HandCards(p)])
    \o Flatten([h \in 1..Len(dealr.hands) |-> dealr.hands[h].cards])

AllCards == deck \o disPile \o LiveCards

\* the bag of the cards of a sequence: each card with the number of
\* positions that hold it
BagOfSeq(s) == BagOfAll(LAMBDA j : s[j], SetToBag(1..Len(s)))

\* C1: the undealt deck, the discard pile and all live hands of the players
\* and the dealer together hold 208 cards, and each of the 52 cards of a
\* set exactly 4 times: no card is duplicated or lost.
C1_SupplyConservation ==
  LET all == AllCards
  IN /\ Len(all) = 208
     /\ BagOfSeq(all) = [c \in {OneSet[i] : i \in 1..52} |-> 4]

\* C2: both hands of a split pair of aces hold their one replacement card
\* and stand: no prompt is reached for them, none is doubled.
C2_SplitAcesStand ==
  \A p \in Players : \A h \in HandsOf(p) :
    plyrs[p].hands[h].org = "aces" =>
      /\ Len(plyrs[p].hands[h].cards) <= 2
      /\ ~plyrs[p].hands[h].ddown
      /\ ~(Prompted /\ cur = p /\ it = h)

\* C3: a hand that a split has left is never settled by a natural branch
\* of setHnd (the 1.5x payout, the push of two naturals).
C3_SplitNeverNatural ==
  (last.op = "SettleHand" /\ last.choice \in {"natural", "natpush"})
    => plyrs[last.p].hands[last.h].org = "deal"

\* the credit of a hand with bet w as the claim lists it, first match first
RuleCredit(hand, dlHnd) ==
  LET w == hand.bet
      ps == calcScr(hand)
      ds == calcScr(dlHnd)
      pn == ps = 21 /\ Len(hand.cards) = 2 /\ ~hand.isplit
      dn == ds = 21 /\ Len(dlHnd.cards) = 2 /\ ~dlHnd.isplit
  IN CASE ps > 21 -> 0
       [] ps <= 21 /\ pn /\ dn -> w
       [] ps <= 21 /\ pn /\ ~dn -> w + w + (w \div 2)
       [] ps <= 21 /\ ~pn /\ ds > 21 -> 2 * w
       [] ps <= 21 /\ ~pn /\ ds <= 21 /\ dn -> 0
       [] ps <= 21 /\ ~pn /\ ds <= 21 /\ ~dn /\ ps > ds -> 2 * w
       [] ps <= 21 /\ ~pn /\ ds <= 21 /\ ~dn /\ ps < ds -> 0
       [] OTHER -> w

RanksOf(hand) == [i \in 1..Len(hand.cards) |-> rank(hand.cards[i])]

\* C4: setHnd adds to the chips the amount of the first matching rule; a
\* bust hand is credited 0 also against a bust dealer; with a bet of 10,
\* {10,9} against {10,8} is credited 20, a natural {A,K} against {9,9,K}
\* 25, a natural against a natural 10, and the bust hand {10,5,8} 0.
C4_SettlementCredit ==
  [][last'.op = "SettleHand" =>
       LET hand == plyrs[si].hands[sj]
           dlHnd == dealr.hands[1]
           got == plyrs'[si].chips - plyrs[si].chips
           is(h, rs) == h.bet = 10 /\ ~h.isplit /\ RanksOf(h) = rs
       IN /\ hand.bet > 0
          /\ got = RuleCredit(hand, dlHnd)
          /\ (calcScr(hand) > 21 /\ calcScr(dlHnd) > 21) => got = 0
          /\ (is(hand, <<"10", "9">>) /\ RanksOf(dlHnd) = <<"10", "8">>) => got = 20
          /\ (is(hand, <<"A", "K">>) /\ RanksOf(dlHnd) = <<"9", "9", "K">>) => got = 25
          /\ (is(hand, <<"A", "K">>) /\ is_nat(dlHnd)) => got = 10
          /\ is(hand, <<"10", "5", "8">>) => got = 0
    ]_vars

\* the natural {A,K} with a bet of 10 has been settled against {9,9,K}
\* and 25 chips were credited
C4_Witness ==
  /\ last.op = "SettleHand"
  /\ last.choice = "natural"
  /\ RanksOf(dealr.hands[1]) = <<"9", "9", "K">>
  /\ plyrs[1].chips = 25

\* C5: the chips of every player are >= 0.
C5_ChipsNonNegative == \A p \in Players : plyrs[p].chips >= 0

\* a split was asked for with no chips left, and playSplt has refused it
C5_Witness ==
  /\ last.op = "Split"
  /\ plyrs[cur].chips = 0
  /\ Len(plyrs[cur].hands) = 1
  /\ plyrs[cur].hands[1].bet > 0

\* what a prompt step may change besides the position of the program
Table == <<deck, disPile, plyrs, dealr, playQue, cur, it, initChp>>

\* the eligibility of a split as the claim states it
SplitEligible(p, hand) ==
  /\ Len(hand.cards) = 2
  /\ rank(hand.cards[1]) = rank(hand.cards[2])
  /\ ~hand.isplit
  /\ p.chips >= hand.bet

\* C6: a Split request changes the players, the hands or the supply only
\* on a hand of exactly 2 cards of the same rank that is not flagged isplit
\* and whose owner has chips >= the bet; on such a hand it takes effect,
\* on any other it changes nothing.
C6_SplitOnlyEligible ==
  [][last'.choice = "P" =>
       IF SplitEligible(plyrs[cur], curHnd)
         THEN plyrs' # plyrs
         ELSE UNCHANGED Table]_vars

\* a Split request on two cards of equal value and different rank has been
\* turned down
C6_Witness ==
  /\ last.op = "Invalid"
  /\ last.choice = "P"
  /\ Len(curHnd.cards) = 2
  /\ value(curHnd.cards[1]) = value(curHnd.cards[2])
  /\ rank(curHnd.cards[1]) # rank(curHnd.cards[2])

\* a hand whose turn is over when the iterator leaves it
Terminal(p, hand) ==
  \/ calcScr(hand) >= 21
  \/ hand.ddown
  \/ splitAces(hand)

\* C7: a successful split of a hand with bet w takes w from the chips,
\* inserts a hand with bet w flagged isplit right after the original, moves
\* the original's second card to it, gives each of the two one card of the
\* supply (2 cards each), and leaves the iterator on the original, which it
\* leaves only when that hand's turn is over.
C7_SplitEffect ==
  [][/\ (last'.op = "Split" /\ plyrs' # plyrs) =>
          LET hs == plyrs[cur].hands
              hs2 == plyrs'[cur].hands
              w == hs[it].bet
          IN /\ plyrs'[cur].chips = plyrs[cur].chips - w
             /\ Len(hs2) = Len(hs) + 1
             /\ \A k \in 1..Len(hs) : k < it => hs2[k] = hs[k]
             /\ \A k \in 1..Len(hs) : k > it => hs2[k + 1] = hs[k]
             /\ hs2[it].bet = w /\ hs2[it + 1].bet = w
             /\ hs2[it + 1].isplit /\ ~hs2[it + 1].ddown
             /\ Len(hs2[it].cards) = 2 /\ Len(hs2[it + 1].cards) = 2
             /\ hs2[it].cards[1] = hs[it].cards[1]
             /\ hs2[it + 1].cards[1] = hs[it].cards[2]
             /\ Len(deck) >= 2 =>
                  /\ hs2[it].cards[2] = deck[1]
                  /\ hs2[it + 1].cards[2] = deck[2]
                  /\ deck' = SubSeq(deck, 3, Len(deck))
             /\ \A q \in Players : q # cur => plyrs'[q] = plyrs[q]
             /\ it' = it /\ cur' = cur
     /\ (pc \in {"hand", "inner"} /\ it' # it) =>
          /\ it' = it + 1
          /\ last'.op = "Stand" \/ Terminal(plyrs'[cur], plyrs'[cur].hands[it])
    ]_vars

\* C8: a Double request takes effect only on a hand of exactly 2 cards
\* whose owner has chips >= the bet w; it then takes w from the chips, makes
\* the bet 2w, sets ddown, draws exactly one card and ends the hand's turn
\* whatever the score; a doubled hand is never prompted and no action is
\* applied to it.
C8_DoubleEffect ==
  [][/\ last'.choice = "D" =>
          IF Len(curHnd.cards) = 2 /\ plyrs[cur].chips >= curHnd.bet
            THEN /\ last'.op = "DoubleDown"
                 /\ plyrs'[cur].chips = plyrs[cur].chips - curHnd.bet
                 /\ plyrs'[cur].hands[it].bet = 2 * curHnd.bet
                 /\ plyrs'[cur].hands[it].ddown
                 /\ Len(plyrs'[cur].hands[it].cards) = 3
                 /\ Len(plyrs'[cur].hands) = Len(plyrs[cur].hands)
                 /\ it' = it + 1
                 /\ pc' = "hand"
            ELSE UNCHANGED Table
     /\ last'.op \in {"Hit", "Stand", "DoubleDown", "Split", "Invalid", "EnterHand"}
          => ~curHnd.ddown
     /\ \A p \in Players : \A h \in HandsOf(p) :
          (plyrs[p].hands[h].ddown /\ pc' \in {"hand", "inner", "act", "dealer"})
            => /\ Len(plyrs'[p].hands) >= h
               /\ plyrs'[p].hands[h] = plyrs[p].hands[h]
    ]_vars

\* a hand has been doubled and the card drawn has bust it
C8_Witness ==
  /\ last.op = "DoubleDown"
  /\ plyrs[cur].hands[last.h].ddown
  /\ calcScr(plyrs[cur].hands[last.h]) > 21
  /\ it = last.h + 1

\* C9: a hand with ddown set that holds cards holds exactly 3.
C9_DoubledHasThree ==
  ~err => \A p \in Players : \A h \in HandsOf(p) :
            (plyrs[p].hands[h].ddown /\ plyrs[p].hands[h].cards # <<>>)
              => Len(plyrs[p].hands[h].cards) = 3

\* a doubled hand waits for settlement behind the dealer's play
C9_Witness ==
  /\ pc = "settle"
  /\ \E p \in Players : \E h \in HandsOf(p) :
       plyrs[p].hands[h].ddown /\ Len(plyrs[p].hands[h].cards) = 3

\* C10: no Draw, Stand, Split or Double is offered or applied to a hand
\* whose score is >= 21, and no hand of a player receives a card while its
\* score is 21 or more.
C10_NoActionAt21 ==
  [][/\ last'.op \in {"Hit", "Stand", "DoubleDown", "Split", "Invalid"}
          => calcScr(curHnd) < 21
     /\ \A p \in Players : \A h \in HandsOf(p) :
          (/\ Len(plyrs') >= p
           /\ Len(plyrs'[p].hands) >= h
           /\ Len(plyrs'[p].hands) = Len(plyrs[p].hands)
           /\ Len(plyrs'[p].hands[h].cards) > Len(plyrs[p].hands[h].cards))
            => calcScr(plyrs[p].hands[h]) < 21
    ]_vars

\* a hand of three or more cards has reached 21 and its turn was ended
\* without a prompt
C10_Witness ==
  /\ last.op = "AutoStop"
  /\ Len(plyrs[cur].hands[last.h].cards) >= 3
  /\ calcScr(plyrs[cur].hands[last.h]) = 21

\* the dealer's hand
dlHnd == dealr.hands[1]

DecisionOps ==
  {"TakeTurn", "SkipDdown", "SkipSplitAces", "EnterHand", "AutoStop", "Hit",
   "Stand", "DoubleDown", "Split", "Invalid", "HandsDone"}

\* no hand of the round has been settled or discarded: every player holds
\* hands, each with cards and a bet
AllHandsLive ==
  \A p \in Players :
    /\ plyrs[p].hands # <<>>
    /\ \A h \in HandsOf(p) : plyrs[p].hands[h].cards # <<>> /\ plyrs[p].hands[h].bet > 0

\* C12: within a round, every step of a decision phase is taken while the
\* dealer holds the two initial cards and no hand is settled; every draw of
\* the dealer beyond them is taken with the turn queue empty, after the
\* decision phase of the last player has returned, and before any hand is
\* settled; every hand is settled after the dealer has stopped (a natural or
\* a score >= 17), and the dealer's hand does not change during settlement.
C12_PhaseOrder ==
  [][/\ last'.op \in DecisionOps =>
          /\ pc \in {"act", "hand", "inner"}
          /\ Len(dlHnd.cards) = 2
          /\ dealr' = dealr
          /\ AllHandsLive
     /\ last'.op = "DealerHit" =>
          /\ pc = "dealer"
          /\ playQue = <<>>
          /\ cur = Len(plyrs)
          /\ it > Len(plyrs[cur].hands)
          /\ AllHandsLive
          /\ plyrs' = plyrs
     /\ last'.op = "SettleHand" =>
          /\ pc = "settle"
          /\ playQue = <<>>
          /\ is_nat(dlHnd) \/ calcScr(dlHnd) >= 17
          /\ dealr' = dealr
          /\ deck' = deck
    ]_vars

\* with two players, one of them with the two hands of a split, the dealer
\* draws a third card
C12_Witness ==
  /\ last.op = "DealerHit"
  /\ Len(plyrs) = 2
  /\ \E p \in Players : Len(plyrs[p].hands) = 2
  /\ Len(dlHnd.cards) = 3

\* the dealer's two initial cards score 21
DealerNatural == Len(dlHnd.cards) = 2 /\ calcScr(dlHnd) = 21

\* C13: when the dealer's two initial cards are a natural, the steps
\* between the initial deal and the settlement only empty the turn queue:
\* they deal no card and change no hand, bet or chips, so every player still
\* holds one hand of two cards whose bet and chips add up to the chips at
\* the start of the round; the settlement deals no card and credits every
\* hand its bet when that hand is a natural too, and 0 otherwise.
C13_DealerNatural ==
  [][/\ (DealerNatural /\ pc \in {"act", "hand", "inner", "dealer"}) =>
          /\ last'.op \in {"SkipTurn", "BeginDealer", "DealerDone"}
          /\ UNCHANGED <<deck, disPile, plyrs, dealr>>
          /\ \A p \in Players :
               /\ Len(plyrs[p].hands) = 1
               /\ Len(plyrs[p].hands[1].cards) = 2
               /\ ~plyrs[p].hands[1].ddown /\ ~plyrs[p].hands[1].isplit
               /\ plyrs[p].chips + plyrs[p].hands[1].bet = initChp[p]
     /\ (DealerNatural /\ pc = "settle") =>
          /\ deck' = deck
          /\ last'.op = "SettleHand" =>
               LET hand == plyrs[si].hands[sj]
               IN plyrs'[si].chips - plyrs[si].chips =
                    IF Len(hand.cards) = 2 /\ calcScr(hand) = 21 THEN hand.bet ELSE 0
    ]_vars

\* against a dealer's natural the player's natural has been settled as a
\* push: the chips are back at their value of the start of the round
C13_Witness ==
  /\ DealerNatural
  /\ last.op = "SettleHand"
  /\ last.choice = "natpush"
  /\ disPile # <<>>
  /\ plyrs[last.p].chips = initChp[last.p]

\* a request the claim calls rejected: not eligible, or not covered by the
\* chips
Rejected(c, p, hand) ==
  \/ c = "P" /\ ~(Len(hand.cards) = 2 /\ rank(hand.cards[1]) = rank(hand.cards[2])
                    /\ ~hand.isplit)
  \/ c = "D" /\ Len(hand.cards) # 2
  \/ c \in {"P", "D"} /\ p.chips < hand.bet
  \/ c \notin {"H", "S", "P", "D"}

\* C14: a rejected request (a Split without a pair of one rank or on a hand
\* flagged isplit, a Double on a hand without exactly 2 cards, an unknown
\* choice, a Split or Double with chips < bet) leaves chips, bets, flags,
\* the cards of every hand, the hand lists, the deck and the discard pile
\* unchanged, and the program goes on to prompt for the same hand.
C14_RejectedNoChange ==
  [][(last'.op \in {"Split", "DoubleDown", "Invalid"}
        /\ Rejected(last'.choice, plyrs[cur], curHnd)) =>
       /\ UNCHANGED <<deck, disPile, plyrs, dealr, playQue, initChp, cur, it, err>>
       /\ pc' \in {"inner", "hand"}
       /\ pc' = "hand" => ~skipHand(curHnd)
       /\ ~autoStop(calcScr(curHnd))
    ]_vars

\* a Double has been asked for on two cards with chips < bet and was
\* turned down
C14_Witness ==
  /\ last.op = "Invalid"
  /\ last.choice = "D"
  /\ pc = "inner"
  /\ Len(curHnd.cards) = 2
  /\ plyrs[cur].chips < curHnd.bet

\* the supply that createDk(4) builds, as a bag
FullSupply == [c \in {OneSet[i] : i \in 1..52} |-> 4]

\* C17: the start of a round with fewer than 60 cards in the deck rebuilds
\* the supply: the deck then holds 208 cards (each card 4 times) and the
\* discard pile is empty; the start of a round with 60 cards or more leaves
\* deck and discard pile as they are; bets are placed and the initial deal
\* begins with at least 60 cards in the deck.
C17_ReshuffleTrigger ==
  [][/\ last'.op = "StartRound" =>
          IF Len(deck) < 60
            THEN /\ Len(deck') = 208
                 /\ BagOfSeq(deck') = FullSupply
                 /\ disPile' = <<>>
            ELSE /\ deck' = deck
                 /\ disPile' = disPile
     /\ last'.op \in {"PlaceBet", "RejectBet", "InitialDeal"} => Len(deck) >= 60
     /\ last'.op \in {"PlaceBet", "RejectBet", "InitialDeal"} => pc # "loop"
    ]_vars

\* a round has started with fewer than 60 cards in the deck and the rest
\* of the supply in the discard pile, and the supply was rebuilt
C17_Witness ==
  /\ last.op = "StartRound"
  /\ last.choice = "rebuild"
  /\ pc = "bet"
  /\ Len(deck) = 208
  /\ disPile = <<>>

\* the players a..b in seating order
Seats(a, b) == [i \in 1..(b + 1 - a) |-> a + i - 1]

\* C18: in a round, every player is put in the turn queue once, when the
\* bet is placed, and taken from it once, in seating order: while bets are
\* placed the queue holds the players that have bet, during the actions
\* phase the players behind the one taken last; the steps of a player's
\* hands, splits included, leave the queue alone; the queue is empty when
\* the dealer plays, during settlement and when the round has ended.
C18_TurnQueue ==
  [][/\ (~err /\ pc = "bet") => playQue = Seats(1, bi - 1)
     /\ (~err /\ pc = "deal") => playQue = Seats(1, Len(plyrs))
     /\ (~err /\ pc \in {"hand", "inner"}) => playQue = Seats(cur + 1, Len(plyrs))
     /\ (~err /\ pc = "act") =>
          \E k \in 0..Len(plyrs) :
            /\ playQue = Seats(k + 1, Len(plyrs))
            /\ k > 0 => cur = k
     /\ (~err /\ pc \in {"dealer", "settle", "summary", "loop"}) => playQue = <<>>
     /\ playQue' # playQue =>
          \/ last'.op = "PlaceBet" /\ playQue' = Append(playQue, bi)
          \/ /\ last'.op \in {"TakeTurn", "SkipTurn"}
             /\ cur' = Head(playQue)
             /\ playQue' = Tail(playQue)
     /\ last'.op = "PlaceBet" => \A i \in 1..Len(playQue) : playQue[i] # bi
    ]_vars

\* the second of two players is taken from the queue after the first has
\* played the two hands of a split
C18_Witness ==
  /\ last.op = "TakeTurn"
  /\ last.p = 2
  /\ playQue = <<>>
  /\ Len(plyrs[1].hands) = 2

\* C19: the settlement of a hand moves its cards to the discard pile and
\* leaves it without cards and with bet 0, and so does the discard of the
\* dealer's hand; when the round is over no player holds a hand, the dealer
\* holds exactly one hand, without cards and with bet 0, and no card is
\* left in a hand.
C19_RoundCleanup ==
  [][/\ last'.op = "SettleHand" =>
          /\ plyrs'[si].hands[sj].cards = <<>>
          /\ plyrs'[si].hands[sj].bet = 0
          /\ disPile' = disPile \o plyrs[si].hands[sj].cards
          /\ plyrs[si].hands[sj].cards # <<>>
     /\ last'.op = "DiscardDealer" =>
          /\ disPile' = disPile \o dlHnd.cards
          /\ Len(dlHnd.cards) >= 2
     /\ pc = "summary" =>
          /\ \A p \in Players : plyrs[p].hands = <<>>
          /\ Len(dealr.hands) = 1
          /\ dlHnd.cards = <<>>
          /\ dlHnd.bet = 0
          /\ LiveCards = <<>>
    ]_vars

\* a round of two players has ended with nine cards or more in the discard
\* pile
C19_Witness ==
  /\ pc = "summary"
  /\ last.op = "DiscardDealer"
  /\ Len(plyrs) = 2
  /\ Len(disPile) >= 9

\* the ids of the players in the list
Ids(ps) == {ps[i].id : i \in 1..Len(ps)}

\* C20: the start of a round removes exactly the players with chips < 1
\* and keeps the others in their order; a removed player never comes back;
\* bets, deals and settlements of a round only concern players that had
\* chips >= 1 at its start; the list of players changes its members at no
\* other step; and with no player left no round is started: the session
\* ends.
C20_BrokePlayersLeave ==
  [][/\ last'.op = "StartRound" =>
          /\ plyrs' = SelectSeq(plyrs, LAMBDA p : p.chips >= 1)
          /\ plyrs' # <<>>
     /\ Ids(plyrs') \subseteq Ids(plyrs)
     /\ Ids(plyrs') # Ids(plyrs) => last'.op \in {"StartRound", "GameOver"}
     /\ pc \in {"bet", "deal", "act", "hand", "inner", "dealer", "settle"} =>
          /\ Len(initChp) = Len(plyrs)
          /\ \A p \in Players : initChp[p] >= 1
     /\ (pc = "loop" /\ \A p \in Players : plyrs[p].chips < 1) =>
          /\ last'.op = "GameOver"
          /\ pc' = "end"
          /\ plyrs' = <<>>
          /\ rounds' = rounds
     /\ pc # "end"
    ]_vars

\* the first of two players has lost all chips in the first round; the
\* second round is played by the second one alone
C20_Witness ==
  /\ rounds = 2
  /\ last.op = "SettleHand"
  /\ Len(plyrs) = 1
  /\ plyrs[1].id = 2

\* the number of dealCrd calls made by the handler of a step
DrawsOf(op, n) ==
  CASE op \in {"Hit", "DoubleDown", "DealerHit"} -> 1
    [] op = "Split" -> 2
    [] op = "InitialDeal" -> 2 * (n + 1)
    [] OTHER -> 0

IsPrefix(s, t) == Len(s) <= Len(t) /\ SubSeq(t, 1, Len(s)) = s

\* the cards of every hand, hand by hand
CardsByHand ==
  <<[p \in Players |-> [h \in HandsOf(p) |-> plyrs[p].hands[h].cards]],
    [h \in 1..Len(dealr.hands) |-> dealr.hands[h].cards]>>

\* the cards of the hand that the draw of a step is made to
DrawnTo(ps, dl, stp) ==
  IF stp.p = 0 THEN dl.hands[1].cards ELSE ps[stp.p].hands[stp.h].cards

\* the number of positions of s that hold card c
Copies(s, c) == Cardinality({i \in 1..Len(s) : s[i] = c})

\* the hand drawn to has received card c at its end, and every other hand
\* holds the cards it held before the step
OnlyDrawnTo(stp, c) ==
  /\ DrawnTo(plyrs', dealr', stp) = Append(DrawnTo(plyrs, dealr, stp), c)
  /\ Len(plyrs') = Len(plyrs)
  /\ \A p \in Players :
       /\ Len(plyrs'[p].hands) = Len(plyrs[p].hands)
       /\ \A h \in HandsOf(p) :
            (p # stp.p \/ h # stp.h) =>
              plyrs'[p].hands[h].cards = plyrs[p].hands[h].cards
  /\ stp.p # 0 => dealr'.hands[1].cards = dealr.hands[1].cards

\* C15: a step that makes one draw (hit, double down, dealer's hit) with the
\* undealt deck empty: with a non-empty discard pile the pile becomes empty,
\* the draw succeeds and adds one card to the hand drawn to, every other
\* hand keeps exactly its cards, and the new deck together with the drawn
\* card holds exactly the cards of the old discard pile; with the pile empty
\* too the session takes the fatal error, deck and pile stay empty and no
\* hand's cards change (a hit or a dealer's hit leaves players and dealer as
\* they were).  The discard pile loses cards in no other step than one whose
\* draws outnumber the undealt cards (the rebuild of the whole supply at a
\* round start, which clears the pile and creates new cards, apart).
C15_DrawRecovery ==
  [][/\ (DrawsOf(last'.op, Len(plyrs)) = 1 /\ deck = <<>>) =>
          IF disPile # <<>>
            THEN /\ ~err'
                 /\ pc' # "end"
                 /\ disPile' = <<>>
                 /\ Len(deck') = Len(disPile) - 1
                 /\ Len(DrawnTo(plyrs', dealr', last')) >= 1
                 /\ LET got == DrawnTo(plyrs', dealr', last')
                        c == got[Len(got)]
                    IN /\ OnlyDrawnTo(last', c)
                       /\ \A i \in 1..52 :
                            Copies(deck', OneSet[i])
                              + (IF c = OneSet[i] THEN 1 ELSE 0)
                              = Copies(disPile, OneSet[i])
            ELSE /\ err'
                 /\ pc' = "end"
                 /\ deck' = <<>>
                 /\ disPile' = <<>>
                 /\ CardsByHand' = CardsByHand
                 /\ last'.op \in {"Hit", "DealerHit"} =>
                      plyrs' = plyrs /\ dealr' = dealr
     /\ ~IsPrefix(disPile, disPile') =>
          \/ last'.op = "StartRound" /\ last'.choice = "rebuild"
          \/ Len(deck) < DrawsOf(last'.op, Len(plyrs))
    ]_vars

\* a draw has just been served from the discard pile: the hand drawn to
\* ends with a card of the pile, the other cards of the pile are the deck
\* and the pile is empty
C15_Witness ==
  /\ DrawsOf(last.op, Len(plyrs)) = 1
  /\ ~err
  /\ disPile = <<>>
  /\ deck # <<>>
  /\ \A i \in 1..Len(deck) : rank(deck[i]) \in {"5", "K"}
  /\ LET got == DrawnTo(plyrs, dealr, last)
     IN rank(got[Len(got)]) \in {"5", "K"}

\* the bets standing on the hands of player p
BetsOf(ps, p) == SumSeq([h \in 1..Len(ps[p].hands) |-> ps[p].hands[h].bet])

\* C16: the step in which a draw finds neither undealt nor discarded cards
\* is a step that draws; it ends the session and starts no round; it
\* settles no hand: every hand keeps a bet, no card goes to the discard
\* pile, no player's chips grow, and each player's chips are what that
\* player had at the start of the round less the bets standing on the
\* player's hands.  After it no step is taken at all.
C16_ExhaustionFatal ==
  [][/\ ~err
     /\ err' =>
          /\ DrawsOf(last'.op, Len(plyrs)) >= 1
          /\ pc' = "end"
          /\ rounds' = rounds
          /\ deck' = <<>>
          /\ disPile' = <<>>
          /\ IsPrefix(disPile', disPile)
          /\ Len(plyrs') = Len(plyrs)
          /\ initChp' = initChp
          /\ \A p \in Players :
               /\ plyrs'[p].chips <= plyrs[p].chips
               /\ plyrs'[p].chips = initChp[p] - BetsOf(plyrs', p)
               /\ \A h \in 1..Len(plyrs'[p].hands) : plyrs'[p].hands[h].bet > 0
    ]_vars

\* the draw of a hit or a double down of the second player has failed with
\* the deck and the discard pile empty
C16_Witness ==
  /\ err
  /\ pc = "end"
  /\ last.op \in {"Hit", "DoubleDown"}
  /\ last.p = 2
  /\ deck = <<>>
  /\ disPile = <<>>
  /\ \A p \in Players : plyrs[p].chips = initChp[p] - BetsOf(plyrs, p)

\* a hand holding cards of given ranks
CardOf(r) == CHOOSE c \in 1..52 : rank(c) = r /\ suit(c) = SUITS[1]

HandOf(rs) == [NewHand EXCEPT !.cards = [i \in 1..Len(rs) |-> CardOf(rs[i])]]

\* the sum of the values of the cards that are not aces, and the aces
PlainSum(hand) ==
  SumSeq([i \in 1..Len(hand.cards) |->
            IF rank(hand.cards[i]) = "A" THEN 0 ELSE value(hand.cards[i])])

AcesIn(hand) == {i \in 1..Len(hand.cards) : rank(hand.cards[i]) = "A"}

\* the totals of a hand over all ways to count each of its aces as 1 or 11
AceTotals(hand) ==
  {PlainSum(hand)
     + SumSeq([i \in 1..Len(hand.cards) |-> IF i \in AcesIn(hand) THEN a[i] ELSE 0]) :
       a \in [1..Len(hand.cards) -> {1, 11}]}

\* the largest of these totals that is at most 21, or all aces low
BestTotal(hand) ==
  LET fit == {t \in AceTotals(hand) : t <= 21}
  IN IF fit # {} THEN CHOOSE t \in fit : \A u \in fit : u <= t
     ELSE PlainSum(hand) + Cardinality(AcesIn(hand))

\* every hand of the players and of the dealer
AllHands ==
  UNION {{plyrs[p].hands[h] : h \in HandsOf(p)} : p \in Players}
    \cup {dealr.hands[h] : h \in 1..Len(dealr.hands)}

\* C21: calcScr of every hand is the best ace assignment: the largest total
\* of at most 21 over all ways to count each ace as 1 or 11, and the total
\* with all aces low when there is none; the score the dealer's play works
\* with is that value; a hand without aces scores the sum of its values,
\* the empty hand 0, {A,A} 12, {A,A,9} 21 and {A,A,A,9} 12.
C21_Scoring ==
  /\ \A hand \in AllHands :
       /\ calcScr(hand) = BestTotal(hand)
       /\ AcesIn(hand) = {} => calcScr(hand) = PlainSum(hand)
       /\ hand.cards = <<>> => calcScr(hand) = 0
       /\ RanksOf(hand) = <<"A", "A">> => calcScr(hand) = 12
       /\ RanksOf(hand) = <<"A", "A", "9">> => calcScr(hand) = 21
       /\ RanksOf(hand) = <<"A", "A", "A", "9">> => calcScr(hand) = 12
  /\ pc = "dealer" => d_score = BestTotal(dealr.hands[1])
  /\ calcScr(HandOf(<<>>)) = 0
  /\ calcScr(HandOf(<<"A", "A">>)) = 12
  /\ calcScr(HandOf(<<"A", "A", "9">>)) = 21
  /\ calcScr(HandOf(<<"A", "A", "A", "9">>)) = 12

\* the player has hit a pair of aces twice and holds {A,A,A,9}
C21_Witness ==
  /\ last.op = "Hit"
  /\ RanksOf(plyrs[1].hands[1]) = <<"A", "A", "A", "9">>
  /\ calcScr(plyrs[1].hands[1]) = 12

\* a hand flagged isplit that holds two cards scoring 21
Split21(hand) == hand.isplit /\ Len(hand.cards) = 2 /\ calcScr(hand) = 21

\* C22: the settlement of a hand flagged isplit that holds exactly two cards
\* scoring 21 takes no natural branch; it is credited nothing against a
\* dealer's two-card 21, its bet against any other dealer's 21, and twice
\* its bet against a lower dealer's score or a dealer's bust, never its bet
\* plus one and a half times its bet rounded down.
C22_SplitTwentyOne ==
  [][(/\ last'.op = "SettleHand"
      /\ plyrs[si].hands[sj].bet > 0
      /\ Split21(plyrs[si].hands[sj])) =>
        LET hand == plyrs[si].hands[sj]
            dl == dealr.hands[1]
            got == plyrs'[si].chips - plyrs[si].chips
        IN /\ last'.choice \notin {"natpush", "natural"}
           /\ got = IF calcScr(dl) = 21 /\ Len(dl.cards) = 2 THEN 0
                    ELSE IF calcScr(dl) = 21 THEN hand.bet
                    ELSE 2 * hand.bet
           /\ got # hand.bet + ((3 * hand.bet) \div 2)
    ]_vars

\* a split hand {A,K} with a bet of 10 has been settled against a dealer's
\* 21 of three cards: the bet is returned
C22_Witness ==
  /\ last.op = "SettleHand"
  /\ last.choice = "push"
  /\ plyrs[1].hands[1].isplit
  /\ [i \in 1..Len(disPile) |-> rank(disPile[i])] = <<"A", "K">>
  /\ Len(dealr.hands[1].cards) = 3
  /\ calcScr(dealr.hands[1]) = 21
  /\ plyrs[1].chips = 10

\* the bet of player p has been taken and none of p's hands has been settled
BetStanding(p) ==
  \/ pc = "bet" /\ p < bi
  \/ pc \in {"deal", "act", "hand", "inner", "dealer"}
  \/ pc = "settle" /\ (si < p \/ (si = p /\ sj = 1))

\* C23: from the moment a player's bet is taken until the settlement of the
\* player's first hand, the player's chips plus the bets standing on the
\* player's hands equal the chips the player had at the start of the round,
\* whatever hits, stands, splits, double downs and refused requests were
\* made.
C23_WagerAccounting ==
  \A p \in Players :
    BetStanding(p) => plyrs[p].chips + BetsOf(plyrs, p) = initChp[p]

\* the dealer plays after a player has split a pair and doubled one of the
\* hands: three bets stand on two hands
C23_Witness ==
  /\ pc = "dealer"
  /\ Len(plyrs[1].hands) = 2
  /\ \E h \in HandsOf(1) : plyrs[1].hands[h].ddown
  /\ BetsOf(plyrs, 1) = 30
  /\ plyrs[1].chips = initChp[1] - 30

\* C24: a successful split is made on a hand without the isplit flag,
\* flags the new hand and leaves the flag of the hand that was split clear;
\* when that hand then holds two cards of one rank and the chips cover its
\* bet, it is the hand hdlPlay goes on with, so that the split is offered
\* on it again and the player can come to hold three hands or more.
C24_Resplit ==
  [][(last'.op = "Split" /\ Len(plyrs'[cur].hands) > Len(plyrs[cur].hands)) =>
       /\ ~curHnd.isplit
       /\ ~plyrs'[cur].hands[it].isplit
       /\ plyrs'[cur].hands[it + 1].isplit
       /\ (canSplt(plyrs'[cur].hands[it])
             /\ ~shortOf(plyrs'[cur].chips, plyrs'[cur].hands[it].bet)) =>
            (it' = it /\ pc' = "hand" /\ ~err')
    ]_vars

\* C25: the initial deal takes the first 2 * (n + 1) cards of the deck for
\* the n players of the turn queue: the k-th card to the k-th player of the
\* queue, the next to the dealer, then a second card to each player in the
\* same order and the last to the dealer.  It follows the last bet, and
\* leaves every player with exactly one hand of exactly 2 cards whose bet
\* lies in 1..chips at the start of the round, the dealer with one hand of
\* exactly 2 cards, and the round at the head of the actions phase.
C25_InitialDeal ==
  [][last'.op = "InitialDeal" =>
       LET n == Len(playQue)
       IN /\ last.op = "PlaceBet"
          /\ n = Len(plyrs)
          /\ ~err'
          /\ pc' = "act"
          /\ \A k \in 1..n :
               LET hs == plyrs'[playQue[k]].hands
               IN /\ Len(hs) = 1
                  /\ hs[1].cards = <<deck[k], deck[n + 1 + k]>>
                  /\ hs[1].bet \in 1..initChp[playQue[k]]
                  /\ ~hs[1].isplit
                  /\ ~hs[1].ddown
          /\ \A k \in 1..(n - 1) : playQue[k] < playQue[k + 1]
          /\ Len(dealr'.hands) = 1
          /\ dealr'.hands[1].cards = <<deck[n + 1], deck[2 * n + 2]>>
          /\ deck' = SubSeq(deck, 2 * n + 3, Len(deck))
          /\ disPile' = disPile
          /\ playQue' = playQue
    ]_vars

\* two players have been dealt to: the first holds a 10 and the second a 5
\* as first card
C25_Witness ==
  /\ last.op = "InitialDeal"
  /\ pc = "act"
  /\ Len(plyrs) = 2
  /\ rank(plyrs[1].hands[1].cards[1]) = "10"
  /\ rank(plyrs[2].hands[1].cards[1]) = "5"
  /\ Len(dealr.hands[1].cards) = 2

\* the total of a hand with every ace counted as 1
LowTotal(hand) == PlainSum(hand) + Cardinality(AcesIn(hand))

\* C26: every card the dealer draws raises the all-aces-low total of the
\* dealer's hand by 1 or more, and the dealer draws only below a low total
\* of 17; the score the hands are settled against lies in 17..26; and the
\* dealer's play, once begun, comes to the settlement.
C26_DealerTerminates ==
  /\ [][last'.op = "DealerHit" =>
          /\ LowTotal(dealr'.hands[1]) >= LowTotal(dlHnd) + 1
          /\ LowTotal(dlHnd) < 17
          /\ Len(dealr'.hands[1].cards) = Len(dlHnd.cards) + 1]_vars
  /\ [](pc = "settle" => (d_score \in 17..26 /\ d_score = calcScr(dlHnd)))
  /\ (pc = "dealer") ~> (pc = "settle")

\* the dealer has drawn three cards to {5,A} and is settled against 26
C26_Witness ==
  /\ pc = "settle"
  /\ last.op = "DealerDone"
  /\ Len(dlHnd.cards) >= 4
  /\ d_score = 26

====
